---- MODULE Spec2Model ----
(***************************************************************************)
(* Model of src/predict.py: the split-screen layout and command planner    *)
(* (VideoProcessor), and the hardware-to-software fallback of              *)
(* process_videos.                                                         *)
(***************************************************************************)
EXTENDS Integers, Sequences, FiniteSets, TLC

(***************************************************************************)
(* Python floats.  The crop decision of _build_crop_scale_filter is taken  *)
(* on IEEE-754 binary64 values, so the arithmetic is modelled exactly: a   *)
(* natural number is a sequence of limbs in base 2^15, most significant    *)
(* first, without leading zeros (zero is <<>>); a non-negative float is    *)
(* [m, e] with value m * 2^e, where m has exactly MantissaBits bits (or is *)
(* <<>> for 0.0).  Every operation rounds its exact result to nearest,     *)
(* ties to even, as the hardware does.                                     *)
(***************************************************************************)
MantissaBits == 53
LimbBits == 15
Base == 2^LimbBits

Max(a, b) == IF a > b THEN a ELSE b
Min(a, b) == IF a < b THEN a ELSE b

RECURSIVE BigOf(_)
BigOf(n) == IF n = 0 THEN <<>> ELSE Append(BigOf(n \div Base), n % Base)

RECURSIVE NatOf(_)
NatOf(a) == IF a = <<>> THEN 0 ELSE Base * NatOf(SubSeq(a, 1, Len(a) - 1)) + a[Len(a)]

ZeroLimbs(n) == [i \in 1..n |-> 0]

RECURSIVE Strip(_)
Strip(a) == IF a = <<>> THEN <<>> ELSE IF a[1] # 0 THEN a ELSE Strip(Tail(a))

RECURSIVE LexCmp(_, _, _)
LexCmp(a, b, i) ==
    IF i > Len(a) THEN 0
    ELSE IF a[i] > b[i] THEN 1
    ELSE IF a[i] < b[i] THEN -1
    ELSE LexCmp(a, b, i + 1)

\* -1, 0 or 1 as a < b, a = b or a > b
BigCmp(a, b) ==
    IF Len(a) > Len(b) THEN 1
    ELSE IF Len(a) < Len(b) THEN -1
    ELSE LexCmp(a, b, 1)

RECURSIVE SubFrom(_, _, _, _)
\* limbs 1..i of a - b - borrow, a and b of equal length
SubFrom(a, b, i, borrow) ==
    IF i = 0 THEN <<>>
    ELSE LET d == a[i] - b[i] - borrow
         IN  Append(SubFrom(a, b, i - 1, IF d < 0 THEN 1 ELSE 0),
                    IF d < 0 THEN d + Base ELSE d)

\* a - b for a >= b
BigSub(a, b) == Strip(SubFrom(a, ZeroLimbs(Len(a) - Len(b)) \o b, Len(a), 0))

RECURSIVE MulFrom(_, _, _, _)
\* limbs 1..i of a, times n, plus carry (n < Base)
MulFrom(a, n, i, carry) ==
    IF i = 0 THEN BigOf(carry)
    ELSE LET d == a[i] * n + carry
         IN  Append(MulFrom(a, n, i - 1, d \div Base), d % Base)

BigMulSmall(a, n) == Strip(MulFrom(a, n, Len(a), 0))

BigAddOne(a) == Strip(MulFrom(a, 1, Len(a), 1))

\* a * 2^s
BigShl(a, s) ==
    IF a = <<>> THEN <<>>
    ELSE BigMulSmall(a, 2^(s % LimbBits)) \o ZeroLimbs(s \div LimbBits)

SmallBitLen(n) == Cardinality({k \in 0..(LimbBits - 1) : 2^k <= n})

BitLen(a) == IF a = <<>> THEN 0 ELSE LimbBits * (Len(a) - 1) + SmallBitLen(a[1])

\* the value of a one-element set: Only({F(x) : x \in {e}}) is F(e) with e
\* evaluated once, however often F uses it
Only(S) == CHOOSE x \in S : TRUE

RECURSIVE Correct(_, _, _)
\* the largest digit q <= est with q * d <= r
Correct(est, r, d) ==
    IF BigCmp(BigMulSmall(d, est), r) > 0 THEN Correct(est - 1, r, d) ELSE est

\* the next quotient digit: floor(r / d), for r < d * Base and d[1] >= Base / 2
Digit(r, d) ==
    IF BigCmp(r, d) < 0 THEN 0
    ELSE Correct(Min(Base - 1,
                     (IF Len(r) > Len(d) THEN r[1] * Base + r[2] ELSE r[1]) \div d[1]),
                 r, d)

RECURSIVE DivFrom(_, _, _, _, _)
\* schoolbook long division of n by d from limb i on
DivFrom(n, d, i, q, r) ==
    IF i > Len(n) THEN [q |-> Strip(q), r |-> r]
    ELSE Only({ Only({ DivFrom(n, d, i + 1, Append(q, qd), BigSub(r2, BigMulSmall(d, qd)))
                       : qd \in {Digit(r2, d)} })
                : r2 \in {Strip(Append(r, n[i]))} })

\* r / 2^s for r a multiple of 2^s, s <= LimbBits
Unshift(r, s) ==
    IF r = <<>> THEN <<>>
    ELSE Only({ SubSeq(ru, 1, Len(ru) - 1) : ru \in {BigShl(r, LimbBits - s)} })

\* [q, r] with n = q * d + r and r < d  (d # 0): d is shifted to a full first limb
BigDivModBy(n, d, s) ==
    Only({ [q |-> qr.q, r |-> Unshift(qr.r, s)]
           : qr \in { Only({ DivFrom(nn, dd, 1, <<>>, <<>>)
                             : nn \in {BigShl(n, s)}, dd \in {BigShl(d, s)} }) } })

BigDivMod(n, d) ==
    Only({ BigDivModBy(nv, dv, LimbBits - SmallBitLen(dv[1])) : nv \in {n}, dv \in {d} })

FloatZero == [m |-> <<>>, e |-> 0]

\* q * 2^e + (r + a bit more when sticky) * 2^(e - s), r < 2^s, to nearest or even
RoundUp(q, r, s, sticky) ==
    Only({ c > 0 \/ (c = 0 /\ (sticky \/ q[Len(q)] % 2 = 1))
           : c \in {BigCmp(r, BigShl(<<1>>, s - 1))} })

RoundSplit(qr, s, sticky, e) ==
    Only({ IF BitLen(m2) > MantissaBits
           THEN [m |-> BigShl(<<1>>, MantissaBits - 1), e |-> e + s + 1]
           ELSE [m |-> m2, e |-> e + s]
           : m2 \in {IF RoundUp(qr.q, qr.r, s, sticky) THEN BigAddOne(qr.q) ELSE qr.q} })

\* n * 2^e (plus something below the last bit of n when sticky) as a float
RoundBits(n, s, sticky, e) ==
    IF s <= 0 THEN [m |-> BigShl(n, 0 - s), e |-> e + s]
    ELSE Only({ RoundSplit(qr, s, sticky, e) : qr \in {BigDivMod(n, BigShl(<<1>>, s))} })

RoundToFloat(n, sticky, e) ==
    Only({ RoundBits(nv, BitLen(nv) - MantissaBits, sticky, e) : nv \in {n} })

\* (n / d) * 2^e rounded to the nearest float, ties to even (n, d > 0)
RoundQuotient(n, d, p, e) ==
    Only({ RoundToFloat(qr.q, qr.r # <<>>, e - p) : qr \in {BigDivMod(BigShl(n, p), d)} })

RoundRatio(n, d, e) ==
    Only({ RoundQuotient(nv, dv, Max(0, MantissaBits + 2 + BitLen(dv) - BitLen(nv)), e)
           : nv \in {n}, dv \in {d} })

\* int / int (true division)
FloatDiv(a, b) == IF a = 0 THEN FloatZero ELSE RoundRatio(BigOf(a), BigOf(b), 0)

\* -1, 0, 1 comparison of two non-negative floats
FloatCmpV(x, y) ==
    IF x.m = <<>> THEN (IF y.m = <<>> THEN 0 ELSE -1)
    ELSE IF y.m = <<>> THEN 1
    ELSE IF x.e > y.e THEN 1
    ELSE IF x.e < y.e THEN -1
    ELSE BigCmp(x.m, y.m)

FloatCmp(x, y) == Only({ FloatCmpV(xv, yv) : xv \in {x}, yv \in {y} })

FloatLess(x, y) == FloatCmp(x, y) < 0

\* abs(x - y)
AbsDiffAt(x, y, e0) ==
    Only({ IF df = <<>> THEN FloatZero ELSE RoundToFloat(df, FALSE, e0)
           : df \in { Only({ IF BigCmp(xa, ya) >= 0 THEN BigSub(xa, ya) ELSE BigSub(ya, xa)
                             : xa \in {BigShl(x.m, x.e - e0)},
                               ya \in {BigShl(y.m, y.e - e0)} }) } })

FloatAbsDiff(x, y) ==
    Only({ AbsDiffAt(xv, yv, IF xv.m = <<>> THEN yv.e
                             ELSE IF yv.m = <<>> THEN xv.e ELSE Min(xv.e, yv.e))
           : xv \in {x}, yv \in {y} })

\* int * float and int / float
IntTimesFloat(n, x) ==
    Only({ IF n = 0 \/ xv.m = <<>> THEN FloatZero
           ELSE RoundToFloat(BigMulSmall(xv.m, n), FALSE, xv.e)
           : xv \in {x} })

IntOverFloat(n, x) ==
    Only({ IF n = 0 THEN FloatZero ELSE RoundRatio(BigOf(n), xv.m, 0 - xv.e)
           : xv \in {x} })

\* int(x): truncation toward zero of a non-negative float
FloatToInt(x) ==
    Only({ IF xv.m = <<>> THEN 0
           ELSE IF xv.e >= 0 THEN NatOf(BigShl(xv.m, xv.e))
           ELSE NatOf(BigDivMod(xv.m, BigShl(<<1>>, 0 - xv.e)).q)
           : xv \in {x} })

(***************************************************************************)
(* Constants of predict.py                                                 *)
(***************************************************************************)
DEFAULT_FPS == 30
LANDSCAPE_WIDTH == 1920
LANDSCAPE_HEIGHT == 1080
PORTRAIT_WIDTH == 1080
PORTRAIT_HEIGHT == 1920
DEFAULT_AUDIO_BITRATE == "128k"
FFMPEG_TIMEOUT == 600

None == "None"

SIDE_BY_SIDE == "16:9 Side by side"
TOP_AND_BOTTOM == "9:16 Top & Bottom"

\* Predictor.predict: the choices of its inputs
LayoutChoices == {SIDE_BY_SIDE, TOP_AND_BOTTOM}
SourceChoices == {"video 1", "video 2"}
QualityChoices == {"fastest", "fast", "balanced"}
\* HardwareDetector.detect_acceleration: what self.hw_accel can be
AccelerationModes == {None, "nvenc", "qsv", "videotoolbox"}
\* the layout names the test scripts pass to VideoProcessor
LayoutNames == LayoutChoices \cup {"left and right", "top and bottom"}

(***************************************************************************)
(* Bounds: the inputs the model draws                                      *)
(***************************************************************************)
\* frame sizes <<width, height>> a probe can report
SampleDims ==
    << <<1280, 720>>, <<960, 1080>>, <<1080, 960>>, <<791, 900>>, <<809, 900>>,
       <<1080, 1920>>, <<792, 900>>, <<227, 200>>, <<3, 2>>, <<1920, 1080>>, <<640, 480>>,
       <<800, 900>>, <<3840, 2160>> >>
\* durations in tenths of a second
SampleDurations == <<50, 20, 75, 35>>

\* the videos <<width, height, duration, has_audio>> the probes of predict can find
SampleVideos ==
    << <<1280, 720, 50, TRUE>>, <<960, 1080, 20, FALSE>>, <<1080, 1920, 75, TRUE>>,
       <<800, 900, 35, FALSE>> >>

NumDims == 9
NumPairDims == 2
NumDurations == 2
NumVideos == 2

Dims == {SampleDims[i] : i \in 1..Min(NumDims, Len(SampleDims))}
PairDims == {SampleDims[i] : i \in 1..Min(NumPairDims, Len(SampleDims))}
Durations == {SampleDurations[i] : i \in 1..Min(NumDurations, Len(SampleDurations))}

VideoInfo(d, dur, audio) ==
    [width |-> d[1], height |-> d[2], duration |-> dur, has_audio |-> audio]

\* what get_video_info can return, for the calls on one video and on a pair
Infos == {VideoInfo(d, dur, a) : d \in Dims, dur \in {SampleDurations[1]}, a \in {TRUE}}
PairInfos == {VideoInfo(d, dur, a) : d \in PairDims, dur \in Durations, a \in BOOLEAN}
ProbeInfos ==
    {VideoInfo(<<SampleVideos[i][1], SampleVideos[i][2]>>, SampleVideos[i][3],
               SampleVideos[i][4]) : i \in 1..Min(NumVideos, Len(SampleVideos))}
CommandInfos == {VideoInfo(SampleDims[1], dur, a) : dur \in Durations, a \in BOOLEAN}
AllDims == Dims \cup PairDims \cup {<<v.width, v.height>> : v \in ProbeInfos}
\* os.cpu_count(), 0 standing for the None of an undetermined count
CpuCounts == {0, 16}

(***************************************************************************)
(* VideoProcessor.get_video_info.  A response of the prober is its exit    *)
(* status and, when its output parses as JSON, whether the document has    *)
(* the key 'streams', the list of streams and the duration of the format.  A value of the     *)
(* document is a number (or a numeric string), some other text, or absent. *)
(***************************************************************************)
ProbeNum(n) == [kind |-> "num", n |-> n, d |-> 1]
ProbeRatio(n, d) == [kind |-> "ratio", n |-> n, d |-> d]
ProbeText == [kind |-> "text", n |-> 0, d |-> 1]
ProbeMissing == [kind |-> "missing", n |-> 0, d |-> 1]

ProbeStream(codec_type, width, height, r_frame_rate) ==
    [codec_type |-> codec_type, width |-> width, height |-> height,
     r_frame_rate |-> r_frame_rate]

SampleStreams ==
    << ProbeStream("video", ProbeNum(1280), ProbeNum(720), ProbeRatio(24, 1)),
       ProbeStream("audio", ProbeMissing, ProbeMissing, ProbeRatio(0, 0)),
       ProbeStream("video", ProbeText, ProbeNum(720), ProbeRatio(30, 1)),
       ProbeStream("video", ProbeNum(640), ProbeMissing, ProbeMissing),
       ProbeStream(None, ProbeNum(640), ProbeNum(480), ProbeText),
       ProbeStream("video", ProbeNum(640), ProbeNum(480), ProbeRatio(30000, 1001)) >>
SampleProbeDurations == << ProbeNum(50), ProbeText, ProbeMissing >>

NumStreams == 5
MaxStreams == 2

Streams == { SampleStreams[i] : i \in 1..Min(NumStreams, Len(SampleStreams)) }
RECURSIVE StreamListsUpTo(_)
StreamListsUpTo(n) ==
    IF n = 0 THEN { <<>> }
    ELSE StreamListsUpTo(n - 1)
         \cup { Append(s, x) : s \in StreamListsUpTo(n - 1), x \in Streams }
StreamLists == StreamListsUpTo(MaxStreams)
ProbeResponses ==
    [returncode : {0, 1}, json : BOOLEAN, has_streams : BOOLEAN,
     streams : StreamLists,
     duration : { SampleProbeDurations[i] : i \in 1..Len(SampleProbeDurations) }]

Raise(type) == [ok |-> FALSE, error |-> type]
Value(v) == [ok |-> TRUE, value |-> v]

\* int(x[key]) and float(x[key])
to_number(v) ==
    CASE v.kind = "missing" -> Raise("KeyError")
      [] v.kind = "num"     -> Value(v.n)
      [] OTHER              -> Raise("ValueError")

\* `for stream in data['streams']`: the first video stream, and has_audio
RECURSIVE scan_streams(_, _, _, _)
scan_streams(streams, i, video_stream, has_audio) ==
    IF i > Len(streams) THEN Value([video_stream |-> video_stream, has_audio |-> has_audio])
    ELSE IF streams[i].codec_type = None THEN Raise("KeyError")
    ELSE IF streams[i].codec_type = "video" /\ video_stream = 0
         THEN scan_streams(streams, i + 1, i, has_audio)
    ELSE IF streams[i].codec_type = "audio"
         THEN scan_streams(streams, i + 1, video_stream, TRUE)
    ELSE scan_streams(streams, i + 1, video_stream, has_audio)

\* _parse_fps(video_stream.get('r_frame_rate', f'{DEFAULT_FPS}/1'))
parse_fps(v) ==
    CASE v.kind = "missing"            -> FloatDiv(DEFAULT_FPS, 1)
      [] v.kind = "ratio" /\ v.d # 0   -> FloatDiv(v.n, v.d)
      [] v.kind = "num"                -> FloatDiv(v.n, 1)
      [] OTHER                         -> FloatDiv(DEFAULT_FPS, 1)

\* the body of the try block: a value, or the exception it raises
probe_body(response) ==
    IF response.returncode # 0 THEN Raise("CalledProcessError")
    ELSE IF ~response.json THEN Raise("JSONDecodeError")
    ELSE IF ~response.has_streams THEN Raise("KeyError")
    ELSE LET found == scan_streams(response.streams, 1, 0, FALSE)
         IN  IF ~found.ok THEN found
             ELSE IF found.value.video_stream = 0 THEN Raise("RuntimeError")
             ELSE LET video_stream == response.streams[found.value.video_stream]
                      width    == to_number(video_stream.width)
                      height   == to_number(video_stream.height)
                      duration == to_number(response.duration)
                  IN  IF ~width.ok THEN width
                      ELSE IF ~height.ok THEN height
                      ELSE IF ~duration.ok THEN duration
                      ELSE Value([width |-> width.value, height |-> height.value,
                                  duration |-> duration.value,
                                  fps |-> parse_fps(video_stream.r_frame_rate),
                                  has_audio |-> found.value.has_audio])

\* the exceptions the except clause turns into RuntimeError
ProbeCaught == {"CalledProcessError", "JSONDecodeError", "KeyError", "IndexError"}

get_video_info(response) ==
    LET outcome == probe_body(response)
    IN  IF ~outcome.ok /\ outcome.error \in ProbeCaught THEN Raise("RuntimeError")
        ELSE outcome

(***************************************************************************)
(* VideoProcessor: the layout planner                                      *)
(***************************************************************************)
\* a variant that rounds down to a multiple of four
make_multiple_of_four(value) == value - (value % 4)

\* a variant that rounds up to even
make_even_up(value) == IF value % 2 = 0 THEN value ELSE value + 1

make_even(value) == IF value % 2 = 0 THEN value ELSE value - 1

\* a variant sized by the inputs instead of the standard frames
calculate_layout_dimensions_by_content(video1_info, video2_info, layout) ==
    IF layout = "16:9 Side by side"
    THEN [output_width  |-> make_even(video1_info.width + video2_info.width),
          output_height |-> make_even(Max(video1_info.height, video2_info.height)),
          video_width   |-> make_even(video1_info.width),
          video_height  |-> make_even(Max(video1_info.height, video2_info.height)),
          layout_type   |-> "horizontal"]
    ELSE [output_width  |-> make_even(Max(video1_info.width, video2_info.width)),
          output_height |-> make_even(video1_info.height + video2_info.height),
          video_width   |-> make_even(Max(video1_info.width, video2_info.width)),
          video_height  |-> make_even(video1_info.height),
          layout_type   |-> "vertical"]

calculate_layout_dimensions(video1_info, video2_info, layout) ==
    IF layout = "16:9 Side by side"
    THEN [output_width  |-> LANDSCAPE_WIDTH,
          output_height |-> LANDSCAPE_HEIGHT,
          video_width   |-> make_even(LANDSCAPE_WIDTH \div 2),
          video_height  |-> make_even(LANDSCAPE_HEIGHT),
          layout_type   |-> "horizontal"]
    ELSE [output_width  |-> PORTRAIT_WIDTH,
          output_height |-> PORTRAIT_HEIGHT,
          video_width   |-> make_even(PORTRAIT_WIDTH),
          video_height  |-> make_even(PORTRAIT_HEIGHT \div 2),
          layout_type   |-> "vertical"]

(***************************************************************************)
(* A filter graph is the list `filters` of build_filter_complex: each      *)
(* segment has input labels, a chain of steps and an output label, and     *)
(* SegmentString gives the text the code writes for it.                    *)
(***************************************************************************)
Step(name, args) == [name |-> name, args |-> args]
Segment(inputs, steps, output) == [inputs |-> inputs, steps |-> steps, output |-> output]

\* abs(input_aspect - target_aspect) < 0.01
aspect_close(input_width, input_height, target_width, target_height) ==
    FloatLess(FloatAbsDiff(FloatDiv(input_width, input_height),
                           FloatDiv(target_width, target_height)),
              FloatDiv(1, 100))

\* a variant that crops from the top left corner
corner_crop(input_width, input_height, target_width, target_height) ==
    LET input_aspect  == FloatDiv(input_width, input_height)
        target_aspect == FloatDiv(target_width, target_height)
    IN  IF FloatLess(target_aspect, input_aspect)
        THEN <<FloatToInt(IntTimesFloat(input_height, target_aspect)), input_height, 0, 0>>
        ELSE <<input_width, FloatToInt(IntOverFloat(input_width, target_aspect)), 0, 0>>

\* <<crop_width, crop_height, crop_x, crop_y>> before they are made even
center_crop(input_width, input_height, target_width, target_height) ==
    LET input_aspect  == FloatDiv(input_width, input_height)
        target_aspect == FloatDiv(target_width, target_height)
    IN  IF FloatLess(target_aspect, input_aspect)
        THEN LET crop_width == FloatToInt(IntTimesFloat(input_height, target_aspect))
             IN  <<crop_width, input_height, (input_width - crop_width) \div 2, 0>>
        ELSE LET crop_height == FloatToInt(IntOverFloat(input_width, target_aspect))
             IN  <<input_width, crop_height, 0, (input_height - crop_height) \div 2>>

scale_steps(target_width, target_height) ==
    << Step("scale", <<target_width, target_height>>), Step("fps", <<DEFAULT_FPS>>) >>

\* a variant that never crops
scale_only_steps(input_width, input_height, target_width, target_height) ==
    scale_steps(target_width, target_height)

\* the steps of the chain: a crop unless the aspects are close, then scale and fps
crop_scale_steps(input_width, input_height, target_width, target_height) ==
    IF aspect_close(input_width, input_height, target_width, target_height)
    THEN scale_steps(target_width, target_height)
    ELSE Only({ << Step("crop", << make_even(c[1]), make_even(c[2]),
                                   make_even(c[3]), make_even(c[4]) >>) >>
                : c \in {center_crop(input_width, input_height,
                                     target_width, target_height)} })
         \o scale_steps(target_width, target_height)

\* crop_scale_steps of the sizes the model draws, computed once
Cells ==
    { <<LANDSCAPE_WIDTH \div 2, LANDSCAPE_HEIGHT>>, <<PORTRAIT_WIDTH, PORTRAIT_HEIGHT \div 2>> }

StepsTable ==
    { <<d, c, crop_scale_steps(d[1], d[2], c[1], c[2])>> : d \in AllDims, c \in Cells }

StepsOf(input_width, input_height, target_width, target_height) ==
    IF <<input_width, input_height>> \in AllDims /\ <<target_width, target_height>> \in Cells
    THEN (CHOOSE t \in StepsTable : /\ t[1] = <<input_width, input_height>>
                                    /\ t[2] = <<target_width, target_height>>)[3]
    ELSE crop_scale_steps(input_width, input_height, target_width, target_height)

build_crop_scale_filter(source, video_info, target_width, target_height, output_label) ==
    Segment(<<source>>,
            StepsOf(video_info.width, video_info.height, target_width, target_height),
            output_label)

loop_segment(source, output_label) ==
    Segment(<<source>>, << Step("loop", <<-1, 32767, 0>>) >>, output_label)

\* a variant that stacks side by side whatever the layout
stack_segment_hstack(layout) ==
    Segment(<<"[v1_final]", "[v2_final]">>, << Step("hstack", <<2>>) >>, "output")

stack_segment(layout) ==
    Segment(<<"[v1_final]", "[v2_final]">>,
            << Step(IF layout = "16:9 Side by side" THEN "hstack" ELSE "vstack", <<2>>) >>,
            "output")

\* a variant that also loops an input exactly as long as the target
build_filter_complex_loop_equal(video1_info, video2_info, layout, loop_videos, target_duration) ==
    LET dimensions   == calculate_layout_dimensions(video1_info, video2_info, layout)
        loop1_needed == loop_videos /\ video1_info.duration <= target_duration
        loop2_needed == loop_videos /\ video2_info.duration <= target_duration
        v1_source    == IF loop1_needed THEN "[v1_looped]" ELSE "[0:v]"
        v2_source    == IF loop2_needed THEN "[v2_looped]" ELSE "[1:v]"
    IN  (IF loop1_needed THEN << loop_segment("[0:v]", "v1_looped") >> ELSE <<>>)
        \o (IF loop2_needed THEN << loop_segment("[1:v]", "v2_looped") >> ELSE <<>>)
        \o << build_crop_scale_filter(v1_source, video1_info, dimensions.video_width,
                                      dimensions.video_height, "v1_final"),
              build_crop_scale_filter(v2_source, video2_info, dimensions.video_width,
                                      dimensions.video_height, "v2_final"),
              stack_segment(layout) >>

build_filter_complex(video1_info, video2_info, layout, loop_videos, target_duration) ==
    LET dimensions   == calculate_layout_dimensions(video1_info, video2_info, layout)
        loop1_needed == loop_videos /\ video1_info.duration < target_duration
        loop2_needed == loop_videos /\ video2_info.duration < target_duration
        v1_source    == IF loop1_needed THEN "[v1_looped]" ELSE "[0:v]"
        v2_source    == IF loop2_needed THEN "[v2_looped]" ELSE "[1:v]"
    IN  (IF loop1_needed THEN << loop_segment("[0:v]", "v1_looped") >> ELSE <<>>)
        \o (IF loop2_needed THEN << loop_segment("[1:v]", "v2_looped") >> ELSE <<>>)
        \o << build_crop_scale_filter(v1_source, video1_info, dimensions.video_width,
                                      dimensions.video_height, "v1_final"),
              build_crop_scale_filter(v2_source, video2_info, dimensions.video_width,
                                      dimensions.video_height, "v2_final"),
              stack_segment(layout) >>

\* the text of one step, of one segment, and ";".join(filters)
StepString(st) ==
    CASE st.name = "loop"  -> "loop=loop=-1:size=32767:start=0"
      [] st.name = "crop"  -> "crop=" \o ToString(st.args[1]) \o ":" \o ToString(st.args[2])
                              \o ":" \o ToString(st.args[3]) \o ":" \o ToString(st.args[4])
      [] st.name = "scale" -> "scale=" \o ToString(st.args[1]) \o ":" \o ToString(st.args[2])
                              \o ":flags=fast_bilinear"
      [] st.name = "fps"   -> "fps=" \o ToString(st.args[1])
      [] OTHER             -> st.name \o "=inputs=" \o ToString(st.args[1])

RECURSIVE JoinStrings(_, _)
JoinStrings(strs, sep) ==
    IF strs = <<>> THEN ""
    ELSE IF Len(strs) = 1 THEN strs[1]
    ELSE strs[1] \o sep \o JoinStrings(Tail(strs), sep)

SegmentString(seg) ==
    JoinStrings(seg.inputs, "")
    \o JoinStrings([i \in 1..Len(seg.steps) |-> StepString(seg.steps[i])], ",")
    \o "[" \o seg.output \o "]"

FilterString(filters) ==
    JoinStrings([i \in 1..Len(filters) |-> SegmentString(filters[i])], ";")

(***************************************************************************)
(* VideoProcessor: the command planner                                     *)
(***************************************************************************)
\* a variant that always encodes in software
video_encoding_args_software(quality_preset, hw_accel) ==
    <<"-c:v", "libx264">>
    \o (CASE quality_preset = "fastest" -> <<"-preset", "ultrafast", "-crf", "28">>
          [] quality_preset = "fast"    -> <<"-preset", "veryfast", "-crf", "25">>
          [] OTHER                      -> <<"-preset", "fast", "-crf", "23">>)
    \o <<"-x264-params", "scenecut=0:bframes=2:b-adapt=1:ref=1">>

\* the branch on hw_accel: the codec and its tuning options
video_encoding_args(quality_preset, hw_accel) ==
    (CASE hw_accel = "nvenc" ->
            <<"-c:v", "h264_nvenc", "-rc", "vbr", "-gpu", "0">>
            \o (CASE quality_preset = "fastest" -> <<"-preset", "p1", "-cq", "28">>
                  [] quality_preset = "fast"    -> <<"-preset", "p3", "-cq", "25">>
                  [] OTHER                      -> <<"-preset", "p4", "-cq", "23">>)
       [] hw_accel = "qsv" ->
            <<"-c:v", "h264_qsv">>
            \o (CASE quality_preset = "fastest"  ->
                        <<"-preset", "veryfast", "-global_quality", "28">>
                  [] quality_preset = "fast"     ->
                        <<"-preset", "faster", "-global_quality", "25">>
                  [] quality_preset = "balanced" ->
                        <<"-preset", "fast", "-global_quality", "23">>)
       [] hw_accel = "videotoolbox" ->
            <<"-c:v", "h264_videotoolbox", "-realtime", "1">>
            \o (CASE quality_preset = "fastest"  -> <<"-q:v", "80">>
                  [] quality_preset = "fast"     -> <<"-q:v", "65">>
                  [] quality_preset = "balanced" -> <<"-q:v", "50">>)
       [] OTHER ->
            <<"-c:v", "libx264">>
            \o (CASE quality_preset = "fastest" -> <<"-preset", "ultrafast", "-crf", "28">>
                  [] quality_preset = "fast"    -> <<"-preset", "veryfast", "-crf", "25">>
                  [] OTHER                      -> <<"-preset", "fast", "-crf", "23">>)
            \o <<"-x264-params", "scenecut=0:bframes=2:b-adapt=1:ref=1">>)

\* a variant whose container flags depend on the mode
build_encoding_args_by_mode(quality_preset, hw_accel) ==
    video_encoding_args(quality_preset, hw_accel)
    \o <<"-c:a", "aac", "-b:a", DEFAULT_AUDIO_BITRATE, "-ac", "2">>
    \o (IF hw_accel = None THEN <<"-movflags", "+faststart">>
                            ELSE <<"-movflags", "+faststart", "-fflags", "+genpts">>)

build_encoding_args(quality_preset, hw_accel) ==
    video_encoding_args(quality_preset, hw_accel)
    \o <<"-c:a", "aac", "-b:a", DEFAULT_AUDIO_BITRATE, "-ac", "2">>
    \o <<"-movflags", "+faststart", "-fflags", "+genpts">>

\* str(min(os.cpu_count() or 4, 8))
ThreadsString(cpu_count) ==
    ToString(Min(IF cpu_count = 0 THEN 4 ELSE cpu_count, 8))

\* str() of a float given in tenths
DurationString(tenths) == ToString(tenths \div 10) \o "." \o ToString(tenths % 10)

\* a variant that ignores the requested source
audio_mapping_first_available(audio_source, video1_has_audio, video2_has_audio) ==
    IF video1_has_audio THEN <<"-map", "0:a:0">>
    ELSE IF video2_has_audio THEN <<"-map", "1:a:0">>
    ELSE <<"-f", "lavfi", "-i", "anullsrc=channel_layout=stereo:sample_rate=48000">>
         \o <<"-map", "2:a:0">>

\* a variant that maps the requested source without looking at its tracks
audio_mapping_unchecked(audio_source, video1_has_audio, video2_has_audio) ==
    IF audio_source = "video 1" THEN <<"-map", "0:a:0">>
    ELSE IF audio_source = "video 2" THEN <<"-map", "1:a:0">>
    ELSE <<"-f", "lavfi", "-i", "anullsrc=channel_layout=stereo:sample_rate=48000">>
         \o <<"-map", "2:a:0">>

\* the -map (and, without any audio, the extra input) of the audio
audio_mapping(audio_source, video1_has_audio, video2_has_audio) ==
    IF audio_source = "video 1" /\ video1_has_audio THEN <<"-map", "0:a:0">>
    ELSE IF audio_source = "video 2" /\ video2_has_audio THEN <<"-map", "1:a:0">>
    ELSE IF video1_has_audio THEN <<"-map", "0:a:0">>
    ELSE IF video2_has_audio THEN <<"-map", "1:a:0">>
    ELSE <<"-f", "lavfi", "-i", "anullsrc=channel_layout=stereo:sample_rate=48000">>
         \o <<"-map", "2:a:0">>

build_ffmpeg_command(video_1, video_2, output_path, layout, video1_info, video2_info, loop_videos, target_duration, audio_source, quality_preset, hw_accel, cpu_count) ==
    <<"ffmpeg", "-y", "-threads", ThreadsString(cpu_count)>>
    \o <<"-i", video_1, "-i", video_2>>
    \o <<"-filter_complex",
         FilterString(build_filter_complex(video1_info, video2_info, layout,
                                           loop_videos, target_duration))>>
    \o audio_mapping(audio_source, video1_info.has_audio, video2_info.has_audio)
    \o <<"-map", "[output]">>
    \o <<"-t", DurationString(target_duration)>>
    \o <<"-vsync", "cfr">>
    \o <<"-r", ToString(DEFAULT_FPS)>>
    \o <<"-avoid_negative_ts", "make_zero">>
    \o build_encoding_args(quality_preset, hw_accel)
    \o <<output_path>>

(***************************************************************************)
(* State.  `call` and `ret` are the last call of a planner method made on  *)
(* its own (as the test scripts make them) and what it returned; the rest  *)
(* is one run of Predictor.predict.                                        *)
(***************************************************************************)
VARIABLES
    call, ret,
    pc,             \* where predict is
    opts,           \* predict's inputs: layout, duration_source, loop_videos, ...
    hw_accel,       \* self.hw_accel of the processor
    cpu_count,      \* os.cpu_count()
    output_exists,  \* whether the file at output_path exists
    video1_info, video2_info, target_duration,
    attempt,        \* the loop index of process_videos
    filters, cmd,   \* the filter graph and the command of the current attempt
    runs,           \* the encoder invocations made, each with its outcome
    success,        \* what process_videos returned ("True") or that it raised
    result          \* what predict returned or raised

unit_vars == <<call, ret>>
predict_vars == <<pc, opts, hw_accel, cpu_count, output_exists, video1_info, video2_info,
                  target_duration, attempt, filters, cmd, runs, success, result>>
vars == <<call, ret, pc, opts, hw_accel, cpu_count, output_exists, video1_info,
          video2_info, target_duration, attempt, filters, cmd, runs, success, result>>

VIDEO_1 == "video_1.mp4"
VIDEO_2 == "video_2.mp4"
OUTPUT_PATH == "output.mp4"

(***************************************************************************)
(* Predictor.predict and VideoProcessor.process_videos                     *)
(***************************************************************************)
PredictIdle ==
    /\ pc = "idle"
    /\ opts = None /\ hw_accel = None /\ cpu_count = 0
    /\ output_exists = FALSE
    /\ video1_info = None /\ video2_info = None /\ target_duration = 0
    /\ attempt = 0 /\ filters = <<>> /\ cmd = <<>> /\ runs = <<>>
    /\ success = None /\ result = None

PredictInit ==
    /\ pc = "start"
    /\ opts \in [layout : LayoutChoices, duration_source : SourceChoices,
                 loop_videos : BOOLEAN, audio_source : SourceChoices,
                 quality_preset : QualityChoices]
    /\ hw_accel \in AccelerationModes
    /\ cpu_count \in CpuCounts
    /\ output_exists = FALSE
    /\ video1_info = None /\ video2_info = None /\ target_duration = 0
    /\ attempt = 0 /\ filters = <<>> /\ cmd = <<>> /\ runs = <<>>
    /\ success = None /\ result = None

\* tempfile.NamedTemporaryFile(suffix=".mp4", delete=False)
CreateOutputFile ==
    /\ pc = "start"
    /\ output_exists' = TRUE
    /\ pc' = "probe1"
    /\ UNCHANGED <<call, ret, opts, hw_accel, cpu_count, video1_info, video2_info,
                   target_duration, attempt, filters, cmd, runs, success, result>>

\* get_video_info(video_1) returns
Probe1 ==
    /\ pc = "probe1"
    /\ \E info \in ProbeInfos : video1_info' = info
    /\ pc' = "probe2"
    /\ UNCHANGED <<call, ret, opts, hw_accel, cpu_count, output_exists, video2_info,
                   target_duration, attempt, filters, cmd, runs, success, result>>

\* get_video_info raises RuntimeError
ProbeFails ==
    /\ pc \in {"probe1", "probe2"}
    /\ result' = "RuntimeError: Failed to get video info"
    /\ pc' = "except"
    /\ UNCHANGED <<call, ret, opts, hw_accel, cpu_count, output_exists, video1_info,
                   video2_info, target_duration, attempt, filters, cmd, runs, success>>

\* a variant that takes the longer of the two durations as the target
Probe2TargetLongest ==
    /\ pc = "probe2"
    /\ \E info \in ProbeInfos :
        /\ video2_info' = info
        /\ target_duration' = Max(video1_info.duration, info.duration)
    /\ attempt' = 0
    /\ pc' = "build"
    /\ UNCHANGED <<call, ret, opts, hw_accel, cpu_count, output_exists, video1_info,
                   filters, cmd, runs, success, result>>

\* get_video_info(video_2) returns; the target duration is chosen and
\* process_videos is entered
Probe2 ==
    /\ pc = "probe2"
    /\ \E info \in ProbeInfos :
        /\ video2_info' = info
        /\ target_duration' = IF opts.duration_source = "video 1"
                              THEN video1_info.duration ELSE info.duration
    /\ attempt' = 0
    /\ pc' = "build"
    /\ UNCHANGED <<call, ret, opts, hw_accel, cpu_count, output_exists, video1_info,
                   filters, cmd, runs, success, result>>

\* a variant that retries in the preferred mode
PreferredMode == hw_accel

\* the mode of the current iteration of `for attempt, hw_accel in
\* enumerate([self.hw_accel, None])`
AttemptMode == IF attempt = 0 THEN hw_accel ELSE None

\* cmd = self._build_ffmpeg_command(...)
BuildCommand ==
    /\ pc = "build"
    /\ filters' = build_filter_complex(video1_info, video2_info, opts.layout,
                                       opts.loop_videos, target_duration)
    /\ cmd' = build_ffmpeg_command(VIDEO_1, VIDEO_2, OUTPUT_PATH, opts.layout, video1_info,
                                   video2_info, opts.loop_videos, target_duration,
                                   opts.audio_source, opts.quality_preset, AttemptMode,
                                   cpu_count)
    /\ pc' = "run"
    /\ UNCHANGED <<call, ret, opts, hw_accel, cpu_count, output_exists, video1_info,
                   video2_info, target_duration, attempt, runs, success, result>>

Run(outcome) == [mode |-> AttemptMode, cmd |-> cmd, outcome |-> outcome]

\* subprocess.run returns: exit status 0; process_videos returns True
RunSucceeds ==
    /\ pc = "run"
    /\ runs' = Append(runs, Run("ok"))
    /\ output_exists' \in BOOLEAN
    /\ success' = "True"
    /\ pc' = "check"
    /\ UNCHANGED <<call, ret, opts, hw_accel, cpu_count, video1_info, video2_info,
                   target_duration, attempt, filters, cmd, result>>

\* a variant in which every failure is final
AfterFailureRaise(message) ==
    /\ success' = "raised"
    /\ result' = message
    /\ pc' = "except"
    /\ UNCHANGED attempt

\* what follows a failed attempt: `if attempt == 0 and hw_accel: continue`, else raise
AfterFailure(message) ==
    IF attempt = 0 /\ AttemptMode # None
    THEN /\ attempt' = 1
         /\ pc' = "build"
         /\ UNCHANGED <<success, result>>
    ELSE /\ success' = "raised"
         /\ result' = message
         /\ pc' = "except"
         /\ UNCHANGED attempt

\* subprocess.run raises CalledProcessError: nonzero exit status
RunFails ==
    /\ pc = "run"
    /\ runs' = Append(runs, Run("error"))
    /\ output_exists' \in BOOLEAN
    /\ AfterFailure("RuntimeError: Video processing failed: stderr")
    /\ UNCHANGED <<call, ret, opts, hw_accel, cpu_count, video1_info, video2_info,
                   target_duration, filters, cmd>>

\* subprocess.run raises TimeoutExpired after FFMPEG_TIMEOUT seconds
RunTimesOut ==
    /\ pc = "run"
    /\ runs' = Append(runs, Run("timeout"))
    /\ output_exists' \in BOOLEAN
    /\ AfterFailure("RuntimeError: Video processing timed out")
    /\ UNCHANGED <<call, ret, opts, hw_accel, cpu_count, video1_info, video2_info,
                   target_duration, filters, cmd>>

\* `if not success or not output_path.exists(): raise`, else return the path
CheckArtifact ==
    /\ pc = "check"
    /\ IF output_exists
       THEN result' = OUTPUT_PATH /\ pc' = "returned"
       ELSE result' = "RuntimeError: Video processing failed" /\ pc' = "except"
    /\ UNCHANGED <<call, ret, opts, hw_accel, cpu_count, output_exists, video1_info,
                   video2_info, target_duration, attempt, filters, cmd, runs, success>>

\* a variant that raises again without removing the file
CleanUpKeepsFile ==
    /\ pc = "except"
    /\ pc' = "raised"
    /\ UNCHANGED <<call, ret, opts, hw_accel, cpu_count, output_exists, video1_info,
                   video2_info, target_duration, attempt, filters, cmd, runs, success,
                   result>>

\* except Exception: unlink the output file if it exists, and raise again
CleanUp ==
    /\ pc = "except"
    /\ output_exists' = FALSE
    /\ pc' = "raised"
    /\ UNCHANGED <<call, ret, opts, hw_accel, cpu_count, video1_info, video2_info,
                   target_duration, attempt, filters, cmd, runs, success, result>>

Init == call = [op |-> "none"] /\ ret = None /\ PredictInit

Next ==
    \/ CreateOutputFile
    \/ Probe1
    \/ Probe2
    \/ ProbeFails
    \/ BuildCommand
    \/ RunSucceeds
    \/ RunFails
    \/ RunTimesOut
    \/ CheckArtifact
    \/ CleanUp

Spec == Init /\ [][Next]_vars

(***************************************************************************)
(* Calls of the planner's methods on their own, as the test scripts make   *)
(* them.                                                                   *)
(***************************************************************************)
NoCall == [op |-> "none"]

CallCalculateLayoutDimensions ==
    /\ call = NoCall
    /\ \E v1 \in Infos, v2 \in Infos, layout \in LayoutNames :
        /\ call' = [op |-> "calculate_layout_dimensions",
                    video1_info |-> v1, video2_info |-> v2, layout |-> layout]
        /\ ret' = calculate_layout_dimensions(v1, v2, layout)
    /\ UNCHANGED predict_vars

CallBuildCropScaleFilter ==
    /\ call = NoCall
    /\ \E source \in {"[0:v]", "[v1_looped]"}, v \in Infos, cell \in Cells :
        /\ call' = [op |-> "build_crop_scale_filter", source |-> source, video_info |-> v,
                    target_width |-> cell[1], target_height |-> cell[2],
                    output_label |-> "v1_final"]
        /\ ret' = build_crop_scale_filter(source, v, cell[1], cell[2], "v1_final")
    /\ UNCHANGED predict_vars

CallBuildFilterComplex ==
    /\ call = NoCall
    /\ \E v1 \in PairInfos, v2 \in PairInfos, layout \in LayoutNames,
          loop_videos \in BOOLEAN, td \in Durations :
        /\ call' = [op |-> "build_filter_complex", video1_info |-> v1, video2_info |-> v2,
                    layout |-> layout, loop_videos |-> loop_videos,
                    target_duration |-> td]
        /\ ret' = build_filter_complex(v1, v2, layout, loop_videos, td)
    /\ UNCHANGED predict_vars

CallGetVideoInfo ==
    /\ call = NoCall
    /\ \E response \in ProbeResponses :
        /\ call' = [op |-> "get_video_info", response |-> response]
        /\ ret' = get_video_info(response)
    /\ UNCHANGED predict_vars

CallBuildEncodingArgs ==
    /\ call = NoCall
    /\ \E quality_preset \in QualityChoices, mode \in AccelerationModes :
        /\ call' = [op |-> "build_encoding_args", quality_preset |-> quality_preset,
                    hw_accel |-> mode]
        /\ ret' = build_encoding_args(quality_preset, mode)
    /\ UNCHANGED predict_vars

CallBuildFfmpegCommand ==
    /\ call = NoCall
    /\ \E v1 \in CommandInfos, v2 \in CommandInfos, layout \in LayoutChoices,
          loop_videos \in BOOLEAN, td \in Durations, audio_source \in SourceChoices,
          quality_preset \in QualityChoices, mode \in AccelerationModes, cpus \in CpuCounts :
        /\ call' = [op |-> "build_ffmpeg_command", video1_info |-> v1, video2_info |-> v2,
                    layout |-> layout, loop_videos |-> loop_videos,
                    target_duration |-> td, audio_source |-> audio_source,
                    quality_preset |-> quality_preset, hw_accel |-> mode]
        /\ ret' = build_ffmpeg_command(VIDEO_1, VIDEO_2, OUTPUT_PATH, layout, v1, v2,
                                       loop_videos, td, audio_source, quality_preset,
                                       mode, cpus)
    /\ UNCHANGED predict_vars

(***************************************************************************)
(* HardwareDetector.detect_acceleration, called on its own.  `call` holds  *)
(* the loop's position (the candidate and the step within the try block)   *)
(* and the log of the processes it ran.                                    *)
(***************************************************************************)
Candidates ==
    << [hw_type |-> "nvenc", codec |-> "h264_nvenc"],
       [hw_type |-> "qsv", codec |-> "h264_qsv"],
       [hw_type |-> "videotoolbox", codec |-> "h264_videotoolbox"] >>

test_cmd_base ==
    <<"ffmpeg", "-f", "lavfi", "-i", "testsrc=duration=1:size=320x240:rate=1",
      "-f", "null", "-">>

\* list.insert(-2, x): x goes before the element that is second from the end
insert_before_last_two(list, x) ==
    SubSeq(list, 1, Len(list) - 2) \o <<x>> \o SubSeq(list, Len(list) - 1, Len(list))

\* cmd = test_cmd_base.copy(); cmd.insert(-2, "-c:v"); cmd.insert(-2, codec)
test_cmd(codec) == insert_before_last_two(insert_before_last_two(test_cmd_base, "-c:v"), codec)

CallDetectAcceleration ==
    /\ call = NoCall
    /\ call' = [op |-> "detect_acceleration", candidate |-> 1, step |-> "check", log |-> <<>>]
    /\ ret' = None
    /\ UNCHANGED predict_vars

Detecting(step) == call.op = "detect_acceleration" /\ call.step = step

\* a variant in which a failed candidate ends the detection
next_candidate_gives_up(log) ==
    /\ call' = [call EXCEPT !.step = "returned", !.log = log]
    /\ ret' = None

\* `continue`, or `return None` after the last candidate
next_candidate(log) ==
    IF call.candidate = Len(Candidates)
    THEN /\ call' = [call EXCEPT !.step = "returned", !.log = log]
         /\ ret' = None
    ELSE /\ call' = [call EXCEPT !.candidate = @ + 1, !.step = "encode", !.log = log]
         /\ ret' = ret

\* subprocess.run(["nvidia-smi"], check=True, capture_output=True)
DetectCheck ==
    /\ Detecting("check")
    /\ \E outcome \in {"ok", "CalledProcessError", "FileNotFoundError"} :
        LET log == Append(call.log, [cmd |-> <<"nvidia-smi">>,
                                     hw_type |-> Candidates[call.candidate].hw_type,
                                     outcome |-> outcome])
        IN  IF outcome = "ok"
            THEN call' = [call EXCEPT !.step = "encode", !.log = log] /\ ret' = ret
            ELSE next_candidate(log)
    /\ UNCHANGED predict_vars

\* result = subprocess.run(cmd, capture_output=True, timeout=10)
DetectEncode ==
    /\ Detecting("encode")
    /\ \E outcome \in {"ok", "nonzero", "FileNotFoundError", "TimeoutExpired"} :
        LET log == Append(call.log, [cmd |-> test_cmd(Candidates[call.candidate].codec),
                                     hw_type |-> Candidates[call.candidate].hw_type,
                                     outcome |-> outcome])
        IN  IF outcome = "ok"
            THEN /\ call' = [call EXCEPT !.step = "returned", !.log = log]
                 /\ ret' = Candidates[call.candidate].hw_type
            ELSE next_candidate(log)
    /\ UNCHANGED predict_vars

\* the call returns to the script, which makes the next one
Return ==
    /\ call # NoCall
    /\ call.op = "detect_acceleration" => call.step = "returned"
    /\ call' = NoCall
    /\ ret' = None
    /\ UNCHANGED predict_vars

UnitInit == call = NoCall /\ ret = None /\ PredictIdle

UnitNext ==
    \/ CallCalculateLayoutDimensions
    \/ CallBuildCropScaleFilter
    \/ CallBuildFilterComplex
    \/ CallGetVideoInfo
    \/ CallBuildEncodingArgs
    \/ CallBuildFfmpegCommand
    \/ CallDetectAcceleration
    \/ DetectCheck
    \/ DetectEncode
    \/ Return

SpecUnit == UnitInit /\ [][UnitNext]_vars

(***************************************************************************)
(* Reading a command and a filter graph                                    *)
(***************************************************************************)
Positions(seq, token) == { i \in 1..Len(seq) : seq[i] = token }
FirstPosition(seq, token) ==
    CHOOSE i \in Positions(seq, token) : \A j \in Positions(seq, token) : i <= j

\* the values that follow the occurrences of an option, by position
ValuesOf(command, option) ==
    { <<i, command[i + 1]>> : i \in Positions(command, option) \ {Len(command)} }
InputsOf(command) == { v[2] : v \in ValuesOf(command, "-i") }
MapsOf(command) == ValuesOf(command, "-map")
AudioMapsOf(command) == { v[2] : v \in { m \in MapsOf(command) : m[2] # "[output]" } }
VideoMapsOf(command) == { m \in MapsOf(command) : m[2] = "[output]" }
SilentSource == "anullsrc=channel_layout=stereo:sample_rate=48000"

\* the three parts of a command around its video-encoder segment
BeforeEncoder(command) == SubSeq(command, 1, FirstPosition(command, "-c:v") - 1)
EncoderSegment(command) ==
    SubSeq(command, FirstPosition(command, "-c:v"), FirstPosition(command, "-c:a") - 1)
AfterEncoder(command) == SubSeq(command, FirstPosition(command, "-c:a"), Len(command))

\* the steps named `name` of a chain, and of a whole graph
StepsNamed(steps, name) == { i \in 1..Len(steps) : steps[i].name = name }
SegmentsWith(graph, name) == { i \in 1..Len(graph) : StepsNamed(graph[i].steps, name) # {} }
\* the segment that produces a label
Producer(graph, label) == graph[CHOOSE i \in 1..Len(graph) : graph[i].output = label]

(***************************************************************************)
(* Properties of process_videos                                            *)
(***************************************************************************)
Failed(run) == run.outcome \in {"error", "timeout"}

\* C1: when the preferred mode is a hardware accelerator, a successful first
\* attempt ends process_videos with True after one invocation; a failed first
\* attempt, by exit status or by timeout alike, leaves process_videos about to
\* make the software attempt; a failure followed by a success makes it return
\* True; two failures make it raise.
C1_Fallback ==
    (hw_accel # None /\ runs # <<>>) =>
        /\ runs[1].outcome = "ok" => (Len(runs) = 1 /\ success = "True")
        /\ (Len(runs) = 1 /\ Failed(runs[1])) =>
                (success = None /\ attempt = 1 /\ pc \in {"build", "run"})
        /\ (Len(runs) = 2 /\ runs[2].outcome = "ok") => success = "True"
        /\ (Len(runs) = 2 /\ Failed(runs[2])) =>
                (success = "raised" /\ result # OUTPUT_PATH /\ pc \in {"except", "raised"})

\* a hardware attempt that timed out, then a software attempt that succeeded
C1_Witness ==
    /\ hw_accel # None /\ Len(runs) = 2
    /\ runs[1].outcome = "timeout" /\ runs[2].outcome = "ok"
    /\ success = "True"

\* C2: the encoder is invoked at most twice, once per attempt; the first
\* invocation uses the preferred mode; a second one follows only a failed
\* hardware attempt and uses software encoding; with software preferred there
\* is one invocation and its failure makes process_videos raise.
C2_Invocations ==
    /\ Len(runs) <= 2
    /\ pc \in {"build", "run"} => Len(runs) = attempt
    /\ success # None => Len(runs) = attempt + 1
    /\ runs # <<>> => runs[1].mode = hw_accel
    /\ Len(runs) = 2 =>
            /\ runs[1].mode # None /\ Failed(runs[1])
            /\ runs[2].mode = None
            /\ EncoderSegment(runs[2].cmd)[2] = "libx264"
    /\ (hw_accel = None /\ runs # <<>>) =>
            /\ Len(runs) = 1 /\ success # None
            /\ Failed(runs[1]) => success = "raised"

\* two invocations, both failed
C2_Witness ==
    /\ Len(runs) = 2 /\ Failed(runs[1]) /\ Failed(runs[2])
    /\ runs[2].mode = None /\ success = "raised"

\* C10: the command of the software attempt equals the command of the failed
\* hardware attempt before and after the video-encoder segment (inputs, filter
\* graph, maps, duration, rate and timestamp options; audio encoding, container
\* flags, output path); the encoder segments differ.
C10_OnlyEncoderDiffers ==
    Len(runs) = 2 =>
        /\ BeforeEncoder(runs[1].cmd) = BeforeEncoder(runs[2].cmd)
        /\ AfterEncoder(runs[1].cmd) = AfterEncoder(runs[2].cmd)
        /\ EncoderSegment(runs[1].cmd) # EncoderSegment(runs[2].cmd)
        /\ runs[2].cmd = BeforeEncoder(runs[1].cmd)
                         \o video_encoding_args(opts.quality_preset, None)
                         \o AfterEncoder(runs[1].cmd)
        /\ AfterEncoder(runs[1].cmd) =
                <<"-c:a", "aac", "-b:a", DEFAULT_AUDIO_BITRATE, "-ac", "2",
                  "-movflags", "+faststart", "-fflags", "+genpts", OUTPUT_PATH>>

\* the software command of a run whose first attempt used nvenc and looped
C10_Witness ==
    /\ Len(runs) = 2 /\ runs[1].mode = "nvenc"
    /\ opts.loop_videos /\ SegmentsWith(filters, "loop") # {}
    /\ Failed(runs[1]) /\ cmd = runs[2].cmd

\* the example run: two inputs of 1280x720, 5.0 s, with audio
ExampleInfo == VideoInfo(SampleDims[1], SampleDurations[1], TRUE)
ExampleRun ==
    /\ pc = "run"
    /\ video1_info = ExampleInfo /\ video2_info = ExampleInfo
    /\ opts.layout = SIDE_BY_SIDE /\ opts.audio_source = "video 1"
ExampleGeometry ==
    calculate_layout_dimensions(video1_info, video2_info, opts.layout) =
        [output_width |-> 1920, output_height |-> 1080,
         video_width |-> 960, video_height |-> 1080, layout_type |-> "horizontal"]
ExamplePlan ==
    /\ Cardinality(SegmentsWith(filters, "hstack")) = 1
    /\ SegmentsWith(filters, "vstack") = {}
    /\ target_duration = 50
    /\ ValuesOf(cmd, "-t") = { <<FirstPosition(cmd, "-t"), "5.0">> }
    /\ AudioMapsOf(cmd) = {"0:a:0"}

\* C7 as amended: in the example run the geometry is 1920x1080 with two
\* 960x1080 cells, each input's chain is the centred crop 640:720:320:0
\* followed by the scale to the cell and the frame rate, the graph has exactly
\* one hstack, the target duration is 5.0 s and the audio of input 1 is mapped.
C7_ExampleCrops ==
    ExampleRun =>
        /\ ExampleGeometry
        /\ \A label \in {"v1_final", "v2_final"} :
               Producer(filters, label).steps =
                   << Step("crop", <<640, 720, 320, 0>>), Step("scale", <<960, 1080>>),
                      Step("fps", <<30>>) >>
        /\ ValuesOf(cmd, "-filter_complex") =
               { <<FirstPosition(cmd, "-filter_complex"),
                   "[0:v]crop=640:720:320:0,scale=960:1080:flags=fast_bilinear,fps=30[v1_final];"
                   \o "[1:v]crop=640:720:320:0,scale=960:1080:flags=fast_bilinear,fps=30[v2_final];"
                   \o "[v1_final][v2_final]hstack=inputs=2[output]">> }
        /\ ExamplePlan

\* the example run, its command built for the first attempt
C7_Witness ==
    /\ ExampleRun /\ attempt = 0 /\ runs = <<>>
    /\ Len(filters) = 3 /\ cmd # <<>>

\* C7 as stated: in the example run the geometry is 1920x1080 with two
\* 960x1080 cells, neither input's chain has a crop step, the graph has
\* exactly one hstack, the target duration is 5.0 s and the audio of input 1
\* is mapped.
C7_ExampleNoCrop ==
    ExampleRun =>
        /\ ExampleGeometry
        /\ \A label \in {"v1_final", "v2_final"} :
               StepsNamed(Producer(filters, label).steps, "crop") = {}
        /\ ExamplePlan

(***************************************************************************)
(* Properties of the planner methods called on their own                   *)
(***************************************************************************)
\* the inputs of a command in their order
InputList(command) ==
    LET P == Positions(command, "-i")
    IN  [k \in 1..Cardinality(P) |->
            command[(CHOOSE i \in P : Cardinality({j \in P : j < i}) = k - 1) + 1]]

\* C3: the audio of the requested input is mapped if that input has a track;
\* otherwise the audio of the other input if it has one; otherwise the silent
\* stereo source is added as the third input and its audio is mapped.
C3_AudioPrecedence ==
    call.op = "build_ffmpeg_command" =>
        LET has       == <<call.video1_info.has_audio, call.video2_info.has_audio>>
            requested == IF call.audio_source = "video 1" THEN 1 ELSE 2
            other     == 3 - requested
            index     == <<"0:a:0", "1:a:0">>
        IN  /\ has[requested] => AudioMapsOf(ret) = {index[requested]}
            /\ (~has[requested] /\ has[other]) => AudioMapsOf(ret) = {index[other]}
            /\ (~has[1] /\ ~has[2]) =>
                   /\ AudioMapsOf(ret) = {"2:a:0"}
                   /\ InputList(ret) = <<VIDEO_1, VIDEO_2, SilentSource>>
                   /\ \E i \in Positions(ret, "-i") :
                          /\ ret[i + 1] = SilentSource
                          /\ ret[i - 2] = "-f" /\ ret[i - 1] = "lavfi"

\* video 2 requested, only video 1 has a track: the audio of video 1 is mapped
C3_Witness ==
    /\ call.op = "build_ffmpeg_command"
    /\ call.audio_source = "video 2"
    /\ call.video1_info.has_audio /\ ~call.video2_info.has_audio
    /\ AudioMapsOf(ret) = {"0:a:0"}

\* C4: a command has two maps, one of [output] and one of an audio stream; the
\* audio index is 0 or 1 only if that input has a track and 2 only if the
\* silent third input is there, which it is iff neither input has a track.
C4_OneAudioOneVideo ==
    call.op = "build_ffmpeg_command" =>
        /\ Cardinality(MapsOf(ret)) = 2
        /\ Cardinality(VideoMapsOf(ret)) = 1
        /\ Cardinality(AudioMapsOf(ret)) = 1
        /\ \A m \in AudioMapsOf(ret) :
               /\ m \in {"0:a:0", "1:a:0", "2:a:0"}
               /\ m = "0:a:0" => (call.video1_info.has_audio /\ InputList(ret)[1] = VIDEO_1)
               /\ m = "1:a:0" => (call.video2_info.has_audio /\ InputList(ret)[2] = VIDEO_2)
               /\ m = "2:a:0" => (Len(InputList(ret)) = 3 /\ InputList(ret)[3] = SilentSource)
        /\ Len(InputList(ret)) \in {2, 3}
        /\ Len(InputList(ret)) = 3 <=>
               (~call.video1_info.has_audio /\ ~call.video2_info.has_audio)

\* neither input has a track: three inputs, the audio of the third is mapped
C4_Witness ==
    /\ call.op = "build_ffmpeg_command"
    /\ ~call.video1_info.has_audio /\ ~call.video2_info.has_audio
    /\ Len(InputList(ret)) = 3 /\ AudioMapsOf(ret) = {"2:a:0"}
    /\ Cardinality(MapsOf(ret)) = 2

Even(n) == n % 2 = 0

\* C5: whatever the two inputs, the geometry is 1920x1080 with 960x1080 cells
\* when horizontal and 1080x1920 with 1080x960 cells when vertical; all four
\* numbers are even, two cells fill the output along the split axis and a cell
\* has the output's extent along the other axis.
C5_FixedGeometry ==
    call.op = "calculate_layout_dimensions" =>
        /\ call.video1_info.width > 0 /\ call.video1_info.height > 0
        /\ call.video2_info.width > 0 /\ call.video2_info.height > 0
        /\ ret.layout_type \in {"horizontal", "vertical"}
        /\ ret.layout_type = "horizontal" =>
               /\ ret.output_width = 1920 /\ ret.output_height = 1080
               /\ ret.video_width = 960 /\ ret.video_height = 1080
               /\ 2 * ret.video_width = ret.output_width
               /\ ret.video_height = ret.output_height
        /\ ret.layout_type = "vertical" =>
               /\ ret.output_width = 1080 /\ ret.output_height = 1920
               /\ ret.video_width = 1080 /\ ret.video_height = 960
               /\ 2 * ret.video_height = ret.output_height
               /\ ret.video_width = ret.output_width
        /\ Even(ret.output_width) /\ Even(ret.output_height)
        /\ Even(ret.video_width) /\ Even(ret.video_height)

\* a horizontal geometry computed for two inputs of different odd-sized frames
C5_Witness ==
    /\ call.op = "calculate_layout_dimensions"
    /\ call.video1_info.width = 791 /\ call.video2_info.width = 227
    /\ ret.layout_type = "horizontal" /\ ret.video_width = 960

\* C6: 'left and right' gives a 1920x1080 output and a horizontal stack, and
\* 'top and bottom' gives a 1080x1920 output and a vertical stack.
C6_OldLayoutNames ==
    /\ (call.op = "calculate_layout_dimensions" /\ call.layout = "left and right") =>
           (ret.output_width = 1920 /\ ret.output_height = 1080)
    /\ (call.op = "build_filter_complex" /\ call.layout = "left and right") =>
           (SegmentsWith(ret, "hstack") # {} /\ SegmentsWith(ret, "vstack") = {})
    /\ (call.op = "calculate_layout_dimensions" /\ call.layout = "top and bottom") =>
           (ret.output_width = 1080 /\ ret.output_height = 1920)
    /\ (call.op = "build_filter_complex" /\ call.layout = "top and bottom") =>
           (SegmentsWith(ret, "vstack") # {} /\ SegmentsWith(ret, "hstack") = {})

Abs(n) == IF n < 0 THEN 0 - n ELSE n

\* C8: the chain has no crop step iff |width/height - target_width/target_height|
\* is less than 1/100, that is iff 100 * |width * target_height - target_width *
\* height| < height * target_height; otherwise it has exactly one crop step,
\* before the scale step.
C8_CropSkipThreshold ==
    call.op = "build_crop_scale_filter" =>
        LET close == 100 * Abs(call.video_info.width * call.target_height
                               - call.target_width * call.video_info.height)
                     < call.video_info.height * call.target_height
            crops == StepsNamed(ret.steps, "crop")
        IN  /\ close <=> crops = {}
            /\ ~close => /\ Cardinality(crops) = 1
                         /\ \A i \in crops, j \in StepsNamed(ret.steps, "scale") : i < j

\* C9: the graph loops an input iff loop_videos is set and the input is
\* shorter than the target, each input on its own: the loop segment reads the
\* raw input and the input's chain then reads the looped stream.
C9_LoopIff ==
    call.op = "build_filter_complex" =>
        LET need1 == call.loop_videos /\ call.video1_info.duration < call.target_duration
            need2 == call.loop_videos /\ call.video2_info.duration < call.target_duration
            Loops(raw, looped) ==
                { i \in 1..Len(ret) : /\ ret[i].inputs = <<raw>>
                                      /\ ret[i].steps[1].name = "loop"
                                      /\ ret[i].output = looped }
        IN  /\ Cardinality(Loops("[0:v]", "v1_looped")) = IF need1 THEN 1 ELSE 0
            /\ Cardinality(Loops("[1:v]", "v2_looped")) = IF need2 THEN 1 ELSE 0
            /\ Producer(ret, "v1_final").inputs =
                   << IF need1 THEN "[v1_looped]" ELSE "[0:v]" >>
            /\ Producer(ret, "v2_final").inputs =
                   << IF need2 THEN "[v2_looped]" ELSE "[1:v]" >>
            /\ Cardinality(SegmentsWith(ret, "loop")) =
                   (IF need1 THEN 1 ELSE 0) + (IF need2 THEN 1 ELSE 0)
            /\ \A i \in SegmentsWith(ret, "loop") : i < Len(ret) - 2

\* loop enabled, target 5.0 s: the input of 2.0 s is looped, the one of 5.0 s is not
C9_Witness ==
    /\ call.op = "build_filter_complex"
    /\ call.loop_videos /\ call.target_duration = 50
    /\ call.video1_info.duration = 50 /\ call.video2_info.duration = 20
    /\ ret[1] = loop_segment("[1:v]", "v2_looped")
    /\ Producer(ret, "v2_final").inputs = <<"[v2_looped]">>
    /\ Producer(ret, "v1_final").inputs = <<"[0:v]">>

(***************************************************************************)
(* Properties of Predictor.predict                                         *)
(***************************************************************************)
\* C11: predict returns the output path only after the encoder's last
\* invocation succeeded and with the output file in place; a success without
\* the file ends in the error "Video processing failed"; and once predict has
\* raised (a probe failed, the encoding failed for good, or the file was
\* missing) the output file does not exist.
C11_ArtifactAndCleanup ==
    /\ pc = "returned" =>
           /\ result = OUTPUT_PATH /\ output_exists
           /\ success = "True" /\ runs # <<>> /\ runs[Len(runs)].outcome = "ok"
    /\ result = OUTPUT_PATH => pc = "returned"
    /\ (pc \in {"except", "raised"} /\ success = "True") =>
           result = "RuntimeError: Video processing failed"
    /\ pc = "raised" => (~output_exists /\ result # OUTPUT_PATH /\ result # None)

\* the encoder reported success, the file was missing, predict raised
C11_Witness ==
    /\ pc = "raised" /\ success = "True" /\ runs[Len(runs)].outcome = "ok"
    /\ ~output_exists /\ result = "RuntimeError: Video processing failed"

(***************************************************************************)
(* Properties of get_video_info, build_encoding_args, detect_acceleration  *)
(***************************************************************************)
FirstVideo(streams) ==
    streams[CHOOSE i \in 1..Len(streams) :
                /\ streams[i].codec_type = "video"
                /\ \A j \in 1..(i - 1) : streams[j].codec_type # "video"]

\* C12: get_video_info returns the width, height and duration of the first
\* video stream of the response, or raises RuntimeError; no other exception
\* reaches the caller, whatever is wrong with the response.
C12_ProbeErrors ==
    call.op = "get_video_info" =>
        \/ /\ ret.ok
           /\ call.response.returncode = 0 /\ call.response.json
           /\ ret.value.width = FirstVideo(call.response.streams).width.n
           /\ ret.value.height = FirstVideo(call.response.streams).height.n
           /\ ret.value.duration = call.response.duration.n
        \/ /\ ~ret.ok
           /\ ret.error = "RuntimeError"

\* the values of an option in a list of arguments
OptionValues(args, option) == { v[2] : v \in ValuesOf(args, option) }
CodecOf(mode) ==
    CASE mode = "nvenc"        -> "h264_nvenc"
      [] mode = "qsv"          -> "h264_qsv"
      [] mode = "videotoolbox" -> "h264_videotoolbox"
      [] OTHER                 -> "libx264"
QualityOptionOf(mode) ==
    CASE mode = "nvenc"        -> "-cq"
      [] mode = "qsv"          -> "-global_quality"
      [] mode = "videotoolbox" -> "-q:v"
      [] OTHER                 -> "-crf"
QualityOptions == {"-cq", "-global_quality", "-q:v", "-crf"}

\* what every mode and preset give: one codec, one quality value under the
\* mode's own option, and tuning options unlike those of the other presets
OneCodecOneQuality ==
    /\ Cardinality(Positions(ret, "-c:v")) = 1
    /\ OptionValues(ret, "-c:v") = {CodecOf(call.hw_accel)}
    /\ \A o \in QualityOptions :
           Cardinality(ValuesOf(ret, o)) = IF o = QualityOptionOf(call.hw_accel) THEN 1 ELSE 0
    /\ \A other \in QualityChoices \ {call.quality_preset} :
           /\ EncoderSegment(build_encoding_args(other, call.hw_accel)) # EncoderSegment(ret)
           /\ OptionValues(build_encoding_args(other, call.hw_accel),
                           QualityOptionOf(call.hw_accel))
              # OptionValues(ret, QualityOptionOf(call.hw_accel))

\* C13 as amended: every mode and preset give one codec and one quality
\* value, distinct between the presets of a mode; software, nvenc and qsv also
\* give one -preset, distinct between the presets, while videotoolbox gives no
\* -preset but the fixed -realtime 1.
C13_EncodingTable ==
    call.op = "build_encoding_args" =>
        /\ OneCodecOneQuality
        /\ call.hw_accel # "videotoolbox" =>
               /\ Cardinality(ValuesOf(ret, "-preset")) = 1
               /\ \A other \in QualityChoices \ {call.quality_preset} :
                      OptionValues(build_encoding_args(other, call.hw_accel), "-preset")
                      # OptionValues(ret, "-preset")
        /\ call.hw_accel = "videotoolbox" =>
               /\ ValuesOf(ret, "-preset") = {}
               /\ OptionValues(ret, "-realtime") = {"1"}
               /\ Len(EncoderSegment(ret)) = 6

\* videotoolbox at the preset fast: quality 65 and no -preset
C13_Witness ==
    /\ call.op = "build_encoding_args"
    /\ call.hw_accel = "videotoolbox" /\ call.quality_preset = "fast"
    /\ EncoderSegment(ret) = <<"-c:v", "h264_videotoolbox", "-realtime", "1", "-q:v", "65">>

\* C13 as stated: every mode and preset give one codec, one speed preset and
\* one quality value, and the presets of a mode give distinct tuning options.
C13_PresetEverywhere ==
    call.op = "build_encoding_args" =>
        /\ OneCodecOneQuality
        /\ Cardinality(ValuesOf(ret, "-preset")) = 1

\* reading the log of a detection
IsCheck(entry) == entry.cmd = <<"nvidia-smi">>
IsEncode(entry) == entry.cmd # <<"nvidia-smi">>
Rank(hw_type) == CHOOSE k \in 1..Len(Candidates) : Candidates[k].hw_type = hw_type
EncodesOf(log) == SelectSeq(log, IsEncode)
TriedTypes(log) == { log[i].hw_type : i \in 1..Len(log) }
EncodedTypes(log) == { log[i].hw_type : i \in { j \in 1..Len(log) : IsEncode(log[j]) } }
SucceededTypes(log) ==
    { log[i].hw_type : i \in { j \in 1..Len(log) : IsEncode(log[j]) /\ log[j].outcome = "ok" } }

\* the order of the log, and what has been returned, whatever the encodes are
DetectionOrder ==
    /\ \A i, j \in 1..Len(call.log) :
           i < j => \/ Rank(call.log[i].hw_type) < Rank(call.log[j].hw_type)
                    \/ /\ call.log[i].hw_type = call.log[j].hw_type
                       /\ IsCheck(call.log[i]) /\ call.log[i].outcome = "ok"
                       /\ IsEncode(call.log[j])
    /\ \A i \in 1..Len(call.log) :
           IsEncode(call.log[i]) =>
               call.log[i].cmd = test_cmd(Candidates[Rank(call.log[i].hw_type)].codec)
    /\ \A i \in 1..(Len(call.log) - 1) :
           ~(IsEncode(call.log[i]) /\ call.log[i].outcome = "ok")
    /\ Detecting("returned") =>
           /\ ret # None =>
                  /\ SucceededTypes(call.log) = {ret}
                  /\ TriedTypes(call.log) = { Candidates[k].hw_type : k \in 1..Rank(ret) }
           /\ ret = None =>
                  /\ SucceededTypes(call.log) = {}
                  /\ TriedTypes(call.log) = { Candidates[k].hw_type : k \in 1..Len(Candidates) }

\* C14 as amended: the candidates are tried in the order nvenc, qsv,
\* videotoolbox; nvenc is first checked with nvidia-smi and gets a test encode
\* only if that check succeeds, qsv and videotoolbox always get one when
\* reached; the first candidate whose test encode succeeds is returned, None
\* if none does; a failed check or encode, a missing tool or a timeout moves
\* on to the next candidate.
C14_DetectionWithCheck ==
    call.op = "detect_acceleration" =>
        /\ DetectionOrder
        /\ \A i \in 1..Len(call.log) : IsCheck(call.log[i]) <=> (i = 1)
        /\ Detecting("returned") =>
               /\ TriedTypes(call.log) \ {"nvenc"} \subseteq EncodedTypes(call.log)
               /\ "nvenc" \in EncodedTypes(call.log) <=> call.log[1].outcome = "ok"

\* nvidia-smi is missing, the qsv encode times out, the videotoolbox encode succeeds
C14_Witness ==
    /\ Detecting("returned") /\ ret = "videotoolbox"
    /\ Len(call.log) = 3
    /\ IsCheck(call.log[1]) /\ call.log[1].outcome = "FileNotFoundError"
    /\ call.log[2].hw_type = "qsv" /\ call.log[2].outcome = "TimeoutExpired"
    /\ call.log[3].hw_type = "videotoolbox" /\ call.log[3].outcome = "ok"

\* C14 as stated: the candidates are tried in the order nvenc, qsv,
\* videotoolbox, each one tried gets a test encode, the first whose test
\* encode succeeds is returned, None if none does, and a failure moves on to
\* the next candidate.
C14_EncodeForEach ==
    call.op = "detect_acceleration" =>
        /\ DetectionOrder
        /\ Detecting("returned") => TriedTypes(call.log) = EncodedTypes(call.log)

(***************************************************************************)
(* Properties of the layout planner, continued                             *)
(***************************************************************************)
\* the geometry a policy sized by the inputs would give, before any downscaling
ContentSized(v1, v2, orientation) ==
    IF orientation = "horizontal"
    THEN <<v1.width + v2.width, Max(v1.height, v2.height)>>
    ELSE <<Max(v1.width, v2.width), v1.height + v2.height>>
OutputSize(geometry) == <<geometry.output_width, geometry.output_height>>
\* |width/height - target_width/target_height| compared with 1/100, exactly
AspectGap(width, height, target_width, target_height) ==
    100 * Abs(width * target_height - target_width * height)
AspectUnit(width, height, target_width, target_height) == height * target_height
CropsOf(graph, label) == StepsNamed(Producer(graph, label).steps, "crop")

Bracket(label) == "[" \o label \o "]"
RawInputs == {"[0:v]", "[1:v]"}
Consumers(graph, label) ==
    { <<i, k>> \in (1..Len(graph)) \X (1..2) :
          k <= Len(graph[i].inputs) /\ graph[i].inputs[k] = Bracket(label) }
Producers(graph, label) == { i \in 1..Len(graph) : graph[i].output = label }
\* the raw input at the head of the chain that segment i belongs to
RECURSIVE RootOf(_, _)
RootOf(graph, i) ==
    IF graph[i].inputs[1] \in RawInputs \/ i = 1 THEN graph[i].inputs[1]
    ELSE LET before == { j \in 1..(i - 1) : Bracket(graph[j].output) = graph[i].inputs[1] }
         IN  IF before = {} THEN "none"
             ELSE RootOf(graph, CHOOSE j \in before : TRUE)
\* the names of the steps of one input's chain, in the order of the graph
RECURSIVE ChainNames(_, _, _)
ChainNames(graph, raw, i) ==
    IF i >= Len(graph) THEN <<>>
    ELSE (IF RootOf(graph, i) = raw
          THEN [k \in 1..Len(graph[i].steps) |-> graph[i].steps[k].name] ELSE <<>>)
         \o ChainNames(graph, raw, i + 1)
ChainOrders ==
    { <<"scale", "fps">>, <<"crop", "scale", "fps">>,
      <<"loop", "scale", "fps">>, <<"loop", "crop", "scale", "fps">> }

\* C16: every filter graph that build_filter_complex emits is well formed:
\* each input's chain is an optional loop, an optional crop, then scale and
\* fps; every label a chain segment consumes is the raw input or the output
\* of an earlier segment of the same chain; every intermediate label is
\* produced once and consumed once; the graph ends with its only stack
\* segment, which consumes [v1_final][v2_final], produces [output], and is
\* hstack for a horizontal layout and vstack for a vertical one.
C16_WellFormedGraph ==
    call.op = "build_filter_complex" =>
        LET n     == Len(ret)
            stack == ret[n]
            orientation == calculate_layout_dimensions(call.video1_info, call.video2_info,
                                                       call.layout).layout_type
        IN  /\ n >= 3
            /\ ChainNames(ret, "[0:v]", 1) \in ChainOrders
            /\ ChainNames(ret, "[1:v]", 1) \in ChainOrders
            /\ \A i \in 1..(n - 1) :
                   /\ Len(ret[i].inputs) = 1
                   /\ RootOf(ret, i) \in RawInputs
                   /\ ret[i].output # "output"
                   /\ Cardinality(Producers(ret, ret[i].output)) = 1
                   /\ Cardinality(Consumers(ret, ret[i].output)) = 1
                   /\ \A c \in Consumers(ret, ret[i].output) : c[1] > i
            /\ stack.inputs = <<"[v1_final]", "[v2_final]">>
            /\ stack.output = "output"
            /\ RootOf(ret, CHOOSE i \in Producers(ret, "v1_final") : TRUE) = "[0:v]"
            /\ RootOf(ret, CHOOSE i \in Producers(ret, "v2_final") : TRUE) = "[1:v]"
            /\ Len(stack.steps) = 1
            /\ stack.steps[1].name = IF orientation = "horizontal" THEN "hstack" ELSE "vstack"
            /\ SegmentsWith(ret, "hstack") \cup SegmentsWith(ret, "vstack") = {n}

\* a vertical graph with a loop and a crop in the chain of the second input
C16_Witness ==
    /\ call.op = "build_filter_complex"
    /\ Len(ret) = 4
    /\ ChainNames(ret, "[1:v]", 1) = <<"loop", "crop", "scale", "fps">>
    /\ ret[Len(ret)].steps[1].name = "vstack"

(***************************************************************************)
(* Properties of the crop rectangle                                        *)
(***************************************************************************)
EvenDown(n) == 2 * (n \div 2)
\* the crop step of a chain as [w, h, x, y], for a chain that has one
HasCrop(segment) == StepsNamed(segment.steps, "crop") # {}
CropOf(segment) ==
    LET args == segment.steps[CHOOSE i \in StepsNamed(segment.steps, "crop") : TRUE].args
    IN  [w |-> args[1], h |-> args[2], x |-> args[3], y |-> args[4]]
\* width / height > target_width / target_height, exactly
Wider(width, height, target_width, target_height) ==
    width * target_height > target_width * height

\* C17: when a crop is emitted it is the centered crop: for an input
\* relatively wider than the cell the height is the input height, the width
\* is inputHeight x targetAspect truncated, y is 0 and x is half of what is
\* left of the width; for a relatively taller input the width is the input
\* width, the height is inputWidth / targetAspect truncated, x is 0 and y is
\* half of what is left of the height; each of the four values is then
\* rounded down to even, which leaves the margins at most 4 pixels apart.
C17_CenteredCrop ==
    (call.op = "build_crop_scale_filter" /\ HasCrop(ret)) =>
        LET iw == call.video_info.width
            ih == call.video_info.height
            tw == call.target_width
            th == call.target_height
            c  == CropOf(ret)
        IN  /\ Even(c.w) /\ Even(c.h) /\ Even(c.x) /\ Even(c.y)
            /\ IF Wider(iw, ih, tw, th)
               THEN LET width == (ih * tw) \div th
                    IN  /\ c.h = EvenDown(ih)
                        /\ c.w = EvenDown(width)
                        /\ c.y = 0
                        /\ c.x = EvenDown((iw - width) \div 2)
                        /\ iw - c.w - 2 * c.x \in 0..4
               ELSE LET height == (iw * th) \div tw
                    IN  /\ c.w = EvenDown(iw)
                        /\ c.h = EvenDown(height)
                        /\ c.x = 0
                        /\ c.y = EvenDown((ih - height) \div 2)
                        /\ ih - c.h - 2 * c.y \in 0..4

\* 791x900 into the 1080x960 cell: every value but the x-offset is rounded
C17_Witness ==
    /\ call.op = "build_crop_scale_filter"
    /\ call.video_info.width = 791 /\ call.video_info.height = 900
    /\ call.target_width = 1080
    /\ HasCrop(ret)
    /\ CropOf(ret) = [w |-> 790, h |-> 702, x |-> 0, y |-> 98]

\* C18: when a crop is emitted, its extent on the cropped axis is less than
\* 2 pixels away from the extent that gives the kept extent the cell's aspect
\* ratio exactly, whether the kept extent is taken before or after it is made
\* even: |w - kept * tw / th| < 2 for a wider input, |h - kept * th / tw| < 2
\* for a taller one.
C18_CropAspect ==
    (call.op = "build_crop_scale_filter" /\ HasCrop(ret)) =>
        LET iw == call.video_info.width
            ih == call.video_info.height
            tw == call.target_width
            th == call.target_height
            c  == CropOf(ret)
        IN  IF Wider(iw, ih, tw, th)
            THEN \A kept \in {ih, c.h} : Abs(c.w * th - kept * tw) < 2 * th
            ELSE \A kept \in {iw, c.w} : Abs(c.h * tw - kept * th) < 2 * tw

\* 227x200 into the 960x1080 cell: 176 wide where 177.78 is exact
C18_Witness ==
    /\ call.op = "build_crop_scale_filter"
    /\ call.video_info.width = 227 /\ call.video_info.height = 200
    /\ call.target_width = 960
    /\ HasCrop(ret)
    /\ CropOf(ret).w = 176 /\ CropOf(ret).h = 200
    /\ 9 * CropOf(ret).w < 8 * 200 - 9

\* C19: whenever a crop is emitted for an input of positive width and height,
\* the rectangle is at least 2 by 2 and lies inside the input frame.
C19_CropInsideFrame ==
    (/\ call.op = "build_crop_scale_filter"
     /\ call.video_info.width > 0 /\ call.video_info.height > 0
     /\ HasCrop(ret)) =>
        LET c == CropOf(ret)
        IN  /\ c.w >= 2 /\ c.h >= 2
            /\ c.x >= 0 /\ c.y >= 0
            /\ c.x + c.w <= call.video_info.width
            /\ c.y + c.h <= call.video_info.height

(***************************************************************************)
(* Properties of the loops in the graphs of predict                        *)
(***************************************************************************)
\* the raw inputs that the loop segments of a graph consume
LoopInputs(graph) == { graph[i].inputs[1] : i \in SegmentsWith(graph, "loop") }
LoopSteps(graph) ==
    { <<i, k>> \in (1..Len(graph)) \X (1..4) :
          k <= Len(graph[i].steps) /\ graph[i].steps[k].name = "loop" }
DurationSourceInput == IF opts.duration_source = "video 1" THEN "[0:v]" ELSE "[1:v]"
DurationSourceInfo == IF opts.duration_source = "video 1" THEN video1_info ELSE video2_info
OtherInfo == IF opts.duration_source = "video 1" THEN video2_info ELSE video1_info

\* C20: in every filter graph that predict builds, the chain of the input
\* chosen by duration_source has no loop step; the graph has at most one
\* loop step, and it has one exactly when loop_videos is set and the other
\* input is strictly shorter than the duration source.
C20_OneLoopAtMost ==
    filters # <<>> =>
        /\ target_duration = DurationSourceInfo.duration
        /\ DurationSourceInput \notin LoopInputs(filters)
        /\ \A i \in SegmentsWith(filters, "loop") : RootOf(filters, i) # DurationSourceInput
        /\ Cardinality(LoopSteps(filters)) <= 1
        /\ Cardinality(LoopSteps(filters)) = 1
               <=> (opts.loop_videos /\ OtherInfo.duration < DurationSourceInfo.duration)

\* video 2 gives the duration and the shorter video 1 is looped
C20_Witness ==
    /\ filters # <<>>
    /\ opts.loop_videos /\ opts.duration_source = "video 2"
    /\ video1_info.duration < video2_info.duration
    /\ LoopInputs(filters) = {"[0:v]"}
    /\ Cardinality(LoopSteps(filters)) = 1

(***************************************************************************)
(* Properties of the test command of detect_acceleration                   *)
(***************************************************************************)
\* the sequence without the two tokens at positions i and i + 1
WithoutPair(seq, i) == SubSeq(seq, 1, i - 1) \o SubSeq(seq, i + 2, Len(seq))
LastThree(seq) == SubSeq(seq, Len(seq) - 2, Len(seq))

\* C21: every test command that detect_acceleration runs for a candidate is
\* the base command with '-c:v' and the candidate's codec inserted next to
\* each other: '-c:v' is immediately followed by the codec, taking the two
\* tokens out gives the base command back, and the last three tokens are
\* still '-f', 'null', '-'.
C21_TestCommand ==
    call.op = "detect_acceleration" =>
        \A i \in 1..Len(call.log) :
            IsEncode(call.log[i]) =>
                LET tested == call.log[i].cmd
                    codec  == Candidates[Rank(call.log[i].hw_type)].codec
                    at     == FirstPosition(tested, "-c:v")
                IN  /\ Positions(tested, "-c:v") # {}
                    /\ at < Len(tested) /\ tested[at + 1] = codec
                    /\ WithoutPair(tested, at) = test_cmd_base
                    /\ LastThree(tested) = <<"-f", "null", "-">>
====
